---- MODULE Spec2Model ----
(***************************************************************************)
(* Model of vislog-core's parsing layer: the Guid codec (parsing/guid.rs)   *)
(* and the serde visitors of parsing/mod.rs.  Every decoder is a pure       *)
(* function of its input; the state machine draws a call (decoder, input)   *)
(* in Init and the actions apply the decoder, as the code computes it.      *)
(*                                                                         *)
(* Text is a sequence of characters, a character is a one-element string    *)
(* (or the name of a code point, "U+E9"); CodePoint gives its scalar value. *)
(***************************************************************************)
EXTENDS Integers, Sequences, FiniteSets, TLC

VARIABLES fn, arg, ret, from, pc

vars == <<fn, arg, ret, from, pc>>

\* ------------------------------------------------------------------ values

None == [some |-> FALSE]
Some(x) == [some |-> TRUE, v |-> x]

Ok(x) == [ok |-> TRUE, v |-> x]
Err(kind, what) == [ok |-> FALSE, err |-> kind, what |-> what]

\* ------------------------------------------------------------- characters

HexUpper == <<"0","1","2","3","4","5","6","7","8","9","A","B","C","D","E","F">>
HexLower == <<"0","1","2","3","4","5","6","7","8","9","a","b","c","d","e","f">>

\* Index of c in the sequence t (0 when absent).
RECURSIVE IndexIn(_, _, _)
IndexIn(c, t, k) ==
    IF k > Len(t) THEN 0 ELSE IF t[k] = c THEN k ELSE IndexIn(c, t, k + 1)

Digits == SubSeq(HexUpper, 1, 10)
UpperAlpha == <<"A","B","C","D","E","F","G","H","I","J","K","L","M","N","O","P","Q","R","S","T","U","V","W","X","Y","Z">>
LowerAlpha == <<"a","b","c","d","e","f","g","h","i","j","k","l","m","n","o","p","q","r","s","t","u","v","w","x","y","z">>

\* `c as u32`: the Unicode scalar value of a character.
CodePoint(c) ==
    IF IndexIn(c, Digits, 1) > 0 THEN 47 + IndexIn(c, Digits, 1)
    ELSE IF IndexIn(c, UpperAlpha, 1) > 0 THEN 64 + IndexIn(c, UpperAlpha, 1)
    ELSE IF IndexIn(c, LowerAlpha, 1) > 0 THEN 96 + IndexIn(c, LowerAlpha, 1)
    ELSE CASE c = " " -> 32
           [] c = "+" -> 43
           [] c = "-" -> 45
           [] c = "." -> 46
           [] c = "/" -> 47
           [] c = ":" -> 58
           [] c = "@" -> 64
           [] c = "{" -> 123
           [] c = "}" -> 125
           [] c = "U+E9" -> 233
           [] c = "U+20AC" -> 8364

\* char::len_utf8: the bytes a character takes in a &str.
len_utf8(c) ==
    IF CodePoint(c) < 128 THEN 1
    ELSE IF CodePoint(c) < 2048 THEN 2
    ELSE IF CodePoint(c) < 65536 THEN 3 ELSE 4

\* str::len: the length of a &str in bytes.
RECURSIVE str_len(_)
str_len(s) == IF s = <<>> THEN 0 ELSE len_utf8(Head(s)) + str_len(Tail(s))

\* ------------------------------------------------------------- u8 bit ops

RECURSIVE BitOp(_, _, _, _)
BitOp(f, a, b, w) ==
    IF w = 0 THEN 0
    ELSE 2 * BitOp(f, a \div 2, b \div 2, w - 1)
         + (IF f = "or" THEN (IF a % 2 = 1 \/ b % 2 = 1 THEN 1 ELSE 0)
            ELSE IF f = "xor" THEN (IF a % 2 # b % 2 THEN 1 ELSE 0)
            ELSE (IF a % 2 = 1 /\ b % 2 = 1 THEN 1 ELSE 0))

BitOr(a, b) == BitOp("or", a, b, 8)
BitAnd(a, b) == BitOp("and", a, b, 8)
BitXor(a, b) == BitOp("xor", a, b, 8)
Shl8(a, k) == (a * (2 ^ k)) % 256
Shr8(a, k) == a \div (2 ^ k)

\* ------------------------------------------------------------ guid.rs

GUID_BYTES == 16
MIN_LEN == 32
MAX_LEN == 36
ASCII_NUMS_START == 48
ASCII_UPPER_ALPHA_START == 65
ASCII_LOWER_ALPHA_START == 97

TooShort == Err("guid", "TooShort")
TooLong == Err("guid", "TooLong")
InvalidCharacter == Err("guid", "InvalidCharacter")

hex_to_num_no_lower(c) ==
    LET u == CodePoint(c) IN
    IF u > 127 THEN None
    ELSE IF u >= 48 /\ u <= 57 THEN Some(u - ASCII_NUMS_START)
    ELSE IF u >= 65 /\ u <= 70 THEN Some(u - ASCII_UPPER_ALPHA_START + 10)
    ELSE None

\* hex_to_num after `let n = c as u32`.
hex_to_num_of(n) ==
    IF n > 127 THEN None
    ELSE IF n >= 48 /\ n <= 57 THEN Some(n - ASCII_NUMS_START)
    ELSE IF n >= 97 /\ n <= 102 THEN Some(n - ASCII_LOWER_ALPHA_START + 10)
    ELSE IF n >= 65 /\ n <= 70 THEN Some(n - ASCII_UPPER_ALPHA_START + 10)
    ELSE None

hex_to_num(c) == hex_to_num_of(CodePoint(c))

\* `'-' => continue`: the position of the first character at or after p that
\* is no hyphen (Len(s) + 1 when `chars` is exhausted).
RECURSIVE skip_hyphens(_, _)
skip_hyphens(s, p) ==
    IF p <= Len(s) /\ s[p] = "-" THEN skip_hyphens(s, p + 1) ELSE p

\* One turn of `while byte_index < 2` that reads a character other than '-':
\* st is [ok, byte, p], the byte so far and the position of `chars`.
read_nibble(s, st, byte_index) ==
    IF ~st.ok THEN st
    ELSE LET q == skip_hyphens(s, st.p) IN
         IF q > Len(s) THEN TooShort
         ELSE LET n == hex_to_num(s[q]) IN
              IF n.some
              THEN [ok |-> TRUE, p |-> q + 1,
                    byte |-> BitOr(st.byte, Shl8(n.v, 4 * BitXor(byte_index, 1)))]
              ELSE InvalidCharacter

\* The body of `for i in 0..16`: the while loop ends after two hex digits.
read_byte(s, p) ==
    read_nibble(s, read_nibble(s, [ok |-> TRUE, p |-> p, byte |-> 0], 0), 1)

\* `for i in 0..16 { ...; inner[i] = byte }`, then Ok(Self { inner }).
RECURSIVE parse_loop(_, _, _, _)
parse_loop(s, p, i, inner) ==
    IF i = GUID_BYTES THEN Ok(inner)
    ELSE LET b == read_byte(s, p) IN
         IF b.ok THEN parse_loop(s, b.p, i + 1, [inner EXCEPT ![i] = b.byte])
         ELSE b

try_from_chars_first(s) ==
    LET r == parse_loop(s, 1, 0, [k \in 0 .. GUID_BYTES - 1 |-> 0]) IN
    IF ~r.ok /\ r = InvalidCharacter THEN r
    ELSE IF str_len(s) < MIN_LEN THEN TooShort
    ELSE IF str_len(s) > MAX_LEN THEN TooLong
    ELSE r

\* impl TryFrom<&str> for Guid
try_from(s) ==
    IF str_len(s) < MIN_LEN THEN TooShort
    ELSE IF str_len(s) > MAX_LEN THEN TooLong
    ELSE parse_loop(s, 1, 0, [k \in 0 .. GUID_BYTES - 1 |-> 0])

format_x_lower(n) == <<HexLower[(n % 16) + 1]>>

\* format!("{:X}", n)
RECURSIVE format_X(_)
format_X(n) ==
    IF n < 16 THEN <<HexUpper[n + 1]>>
    ELSE format_X(n \div 16) \o <<HexUpper[(n % 16) + 1]>>

first_half_no_shift(byte) == byte

first_half(byte) == Shr8(byte, 4)

second_half(byte) == BitAnd(byte, 15)

\* The closure of `map`: the two hex characters of a byte.
byte_chars(byte) == format_X(first_half(byte)) \o format_X(second_half(byte))

RECURSIVE hex_chars_from(_, _)
hex_chars_from(inner, i) ==
    IF i = GUID_BYTES THEN <<>>
    ELSE byte_chars(inner[i]) \o hex_chars_from(inner, i + 1)

Slice(s, a, b) == SubSeq(s, a + 1, b)

\* impl Debug for Guid (Display and Serialize write the same text).
fmt(inner) ==
    LET hex_chars == hex_chars_from(inner, 0) IN
    Slice(hex_chars, 0, 8) \o <<"-">> \o Slice(hex_chars, 8, 12) \o <<"-">>
    \o Slice(hex_chars, 12, 16) \o <<"-">> \o Slice(hex_chars, 16, 20) \o <<"-">>
    \o Slice(hex_chars, 20, Len(hex_chars))

\* ------------------------------------------------------------ JSON input
\* The document handed to the visitors by the deserializer: null, a string
\* (esc: its JSON text holds an escape sequence, so the deserializer can lend
\* it only as a copied string, never as a borrowed &str), a number, an array,
\* an object (the sequence of its entries, in document order, a key may
\* repeat).

JNull == [t |-> "null"]
JStr(s) == [t |-> "str", s |-> s, esc |-> FALSE]
JStrEsc(s) == [t |-> "str", s |-> s, esc |-> TRUE]
JNum(n) == [t |-> "num", n |-> n]
JArr(a) == [t |-> "arr", a |-> a]
JObj(m) == [t |-> "obj", m |-> m]

Entry(k, v) == [k |-> k, v |-> v, esc |-> FALSE]
EntryEsc(k, v) == [k |-> k, v |-> v, esc |-> TRUE]

Panic(what) == Err("panic", what)

IsPanic(r) == ~r.ok /\ r.err = "panic"

\* r.map_err(de::Error::custom)
map_err_custom(r) == IF r.ok \/ IsPanic(r) THEN r ELSE Err("custom", r.what)

\* ------------------------------------------------------------ mod.rs

\* map.next_value::<Option<String>>()
de_Option_String(v) ==
    IF v.t = "null" THEN Ok(None)
    ELSE IF v.t = "str" THEN Ok(Some(v.s))
    ELSE Err("invalid_type", "expected a string")

\* map.next_value::<String>()
de_String(v) ==
    IF v.t = "str" THEN Ok(v.s) ELSE Err("invalid_type", "expected a string")

\* map.next_value::<&str>(): only a string the deserializer can lend.
de_borrowed_str(v) ==
    IF v.t = "str" /\ ~v.esc THEN Ok(v.s)
    ELSE Err("invalid_type", "expected a borrowed string")

\* &s[1..s.len() - 1]: byte offsets 1 and len - 1 must be in range, in order
\* and on character boundaries, or the slice panics.
strip_braces(s) ==
    IF str_len(s) < 2 THEN Panic("slice index out of range")
    ELSE IF len_utf8(s[1]) > 1 \/ len_utf8(s[Len(s)]) > 1
         THEN Panic("byte index is not a char boundary")
    ELSE Ok(SubSeq(s, 2, Len(s) - 1))

\* Guid::try_from(trimmed), when the slice did not panic.
try_from_trimmed(trimmed) == IF trimmed.ok THEN try_from(trimmed.v) ELSE trimmed

guid_from_braced(s) == try_from_trimmed(strip_braces(s))

\* .map_err(|e| de::Error::custom(format!("error parsing guid: {}", e)))
error_parsing_guid(g) ==
    IF g.ok \/ IsPanic(g) THEN g ELSE Err("custom", "error parsing guid")

\* The "guid" arm of CourseEntriesVisitor::visit_map, after
\* `map.next_value::<&str>()`, and the arm.
course_guid_of(guid_str_with_braces) ==
    IF ~guid_str_with_braces.ok THEN guid_str_with_braces
    ELSE error_parsing_guid(guid_from_braced(guid_str_with_braces.v))

de_course_guid(v) == course_guid_of(de_borrowed_str(v))

\* str::parse::<u8>() of decimal digits.
RECURSIVE digits_value(_, _)
digits_value(s, acc) ==
    IF s = <<>> THEN acc
    ELSE digits_value(Tail(s), 10 * acc + (CodePoint(Head(s)) - 48))

parse_u8(s) ==
    IF s = <<>> \/ \E k \in 1 .. Len(s) : IndexIn(s[k], Digits, 1) = 0
    THEN Err("custom", "invalid credits")
    ELSE IF digits_value(s, 0) > 255 THEN Err("custom", "invalid credits")
    ELSE Ok(digits_value(s, 0))

\* courses::parse_course_credits: "<min>" or "<min>-<max>".
parse_course_credits(s) ==
    LET dash == IndexIn("-", s, 1) IN
    IF dash = 0
    THEN LET lo == parse_u8(s) IN IF lo.ok THEN Ok(<<lo.v, None>>) ELSE lo
    ELSE LET lo == parse_u8(SubSeq(s, 1, dash - 1))
             hi == parse_u8(SubSeq(s, dash + 1, Len(s)))
         IN IF ~lo.ok THEN lo ELSE IF ~hi.ok THEN hi ELSE Ok(<<lo.v, Some(hi.v)>>)

\* The "credits" arm of CourseEntriesVisitor::visit_map.
course_credits_of(credits_str) ==
    IF credits_str.ok THEN parse_course_credits(credits_str.v) ELSE credits_str

de_course_credits(v) == course_credits_of(de_borrowed_str(v))

STR_True == <<"T", "r", "u", "e">>
STR_False == <<"F", "a", "l", "s", "e">>
STR_Select == <<"S", "e", "l", "e", "c", "t">>

\* The text before the placeholder of the format string of mod.rs:394.
MSG_Expected ==
    << "E", "x", "p", "e", "c", "t", "e", "d", " ", "\"", "T", "r", "u", "e", "\"", " ",
       "o", "r", " ", "\"", "F", "a", "l", "s", "e", "\"", ".", " ", "G", "o", "t", ":",
       " " >>

\* de::Error::custom(format!(.., invalid_str)): `msg` is the formatted message.
invalid_is_narrative(invalid_str) ==
    [ok |-> FALSE, err |-> "custom", what |-> "Expected \"True\" or \"False\"",
     msg |-> MSG_Expected \o invalid_str]

\* `match is_narrative_str` with an arm for "true" as well.
is_narrative_of_lowercase_too(is_narrative_str) ==
    IF ~is_narrative_str.ok THEN is_narrative_str
    ELSE IF is_narrative_str.v \in {STR_True, <<"t", "r", "u", "e">>} THEN Ok(TRUE)
    ELSE IF is_narrative_str.v = STR_False THEN Ok(FALSE)
    ELSE invalid_is_narrative(is_narrative_str.v)

\* `match is_narrative_str` of the "is_narrative" arm.
is_narrative_of(is_narrative_str) ==
    IF ~is_narrative_str.ok THEN is_narrative_str
    ELSE IF is_narrative_str.v = STR_True THEN Ok(TRUE)
    ELSE IF is_narrative_str.v = STR_False THEN Ok(FALSE)
    ELSE invalid_is_narrative(is_narrative_str.v)

\* The "is_narrative" arm of CourseEntriesVisitor::visit_map.
de_is_narrative(v) == is_narrative_of(de_borrowed_str(v))

\* str::contains
Contains(hay, needle) ==
    \E k \in 0 .. Len(hay) - Len(needle) : SubSeq(hay, k + 1, k + Len(needle)) = needle

\* One arm of a visitor's `match key`: the type next_value reads and the name
\* the arm gives to duplicate_field.
Arm(T, dup) == [de |-> T, dup |-> dup]

\* RequirementsVisitor::visit_map, lines 62..86
RequirementsArms ==
    [title |-> Arm("Option<String>", "title"),
     req_narrative |-> Arm("Option<String>", "req_narrative"),
     requirement_list |-> Arm("RawRequirement", "requirement_list")]

\* RequirementModuleVisitor::visit_map, lines 156..174
RequirementModuleArms ==
    [title |-> Arm("Option<String>", "title"),
     requirement_list |-> Arm("Vec<Requirement>", "requirement_list")]

\* RequirementVisitor::visit_map, lines 213..240
RequirementArms ==
    [title |-> Arm("Option<String>", "title"),
     req_narrative |-> Arm("Option<String>", "req_narrative"),
     course |-> Arm("CourseEntries", "course")]

\* CourseEntriesVisitor::visit_map, lines 315..404
CourseEntriesArms ==
    [url |-> Arm("String", "url"),
     path |-> Arm("String", "path"),
     guid |-> Arm("course_guid", "guid"),
     name |-> Arm("Option<String>", "name"),
     number |-> Arm("Option<String>", "number"),
     subject_name |-> Arm("Option<String>", "subject_name"),
     subject_code |-> Arm("Option<String>", "subject_code"),
     credits |-> Arm("course_credits", "credits"),
     is_narrative |-> Arm("is_narrative", "is_narrative")]

\* CourseDetailsVisitor::visit_map, lines 491..581
CourseDetailsArms ==
    [url |-> Arm("String", "url"),
     GUID |-> Arm("String", "guid"),
     path |-> Arm("String", "path"),
     subject_code |-> Arm("String", "subject_code"),
     subject_name |-> Arm("Option<String>", "subject_name"),
     number |-> Arm("String", "number"),
     name |-> Arm("String", "name"),
     credits_min |-> Arm("Option<String>", "credits_min"),
     credits_max |-> Arm("Option<String>", "credits_max"),
     description |-> Arm("String", "description"),
     prerequisite_narrative |-> Arm("Option<String>", "prerequisite_narrative"),
     prerequisite |-> Arm("Value", "prerequisite"),
     corequisite_narrative |-> Arm("Option<String>", "corequisite_narrative"),
     corequisite |-> Arm("Value", "corequisite")]

\* map.next_key::<String>(): any key.
next_key_String(e) == Ok(e.k)

\* map.next_key::<&str>(): only a key the deserializer can lend.
next_key_str(e) ==
    IF e.esc THEN Err("invalid_type", "expected a borrowed string") ELSE Ok(e.k)

EmptySlots(arms) == [k \in DOMAIN arms |-> None]

\* The decimal literal f32::from_str reads, before rounding: [neg, int, frac,
\* scale] stands for (-1)^neg * (int + frac / 10^scale). Only plain decimal
\* text (sign, digits, one optional point) is modelled.
parse_decimal(s) ==
    LET neg == s # <<>> /\ s[1] = "-"
        body == IF s # <<>> /\ s[1] \in {"-", "+"} THEN Tail(s) ELSE s
        dot == IndexIn(".", body, 1)
        int == IF dot = 0 THEN body ELSE SubSeq(body, 1, dot - 1)
        frac == IF dot = 0 THEN <<>> ELSE SubSeq(body, dot + 1, Len(body))
    IN IF int \o frac = <<>>
          \/ \E k \in 1 .. Len(int \o frac) : IndexIn((int \o frac)[k], Digits, 1) = 0
       THEN Err("custom", "invalid float literal")
       ELSE Ok([neg |-> neg, int |-> digits_value(int, 0),
                frac |-> digits_value(frac, 0), scale |-> Len(frac)])

\* The number of bits of n.
RECURSIVE bit_len(_)
bit_len(n) == IF n = 0 THEN 0 ELSE 1 + bit_len(n \div 2)

\* The number of zero bits after the binary point of r / d, 0 < r < d, plus one.
RECURSIVE leading_bit(_, _)
leading_bit(r, d) == IF 2 * r >= d THEN 1 ELSE 1 + leading_bit(2 * r, d)

\* k bits of the binary expansion of r / d appended to q, with the remainder.
RECURSIVE binary_digits(_, _, _, _)
binary_digits(r, d, q, k) ==
    IF k = 0 THEN [q |-> q, r |-> r]
    ELSE IF 2 * r >= d THEN binary_digits(2 * r - d, d, 2 * q + 1, k - 1)
    ELSE binary_digits(2 * r, d, 2 * q, k - 1)

\* Round to nearest, ties to even, of a significand q with remainder r / d.
round_ties_even(q, r, d) ==
    IF 2 * r > d \/ (2 * r = d /\ q % 2 = 1) THEN q + 1 ELSE q

\* The f32 nearest to a decimal below 2^24: [neg, num, exp] stands for
\* (-1)^neg * num / 2^exp, num a significand of 24 bits.
f32_nearest(dec) ==
    LET d == 10 ^ dec.scale
        exp == IF dec.int > 0 THEN 24 - bit_len(dec.int)
               ELSE IF dec.frac = 0 THEN 0
               ELSE 23 + leading_bit(dec.frac, d)
        bits == binary_digits(dec.frac, d, dec.int, exp)
    IN [neg |-> dec.neg, num |-> round_ties_even(bits.q, bits.r, d), exp |-> exp]

\* str::parse::<f32>()
parse_f32(s) ==
    LET dec == parse_decimal(s) IN
    IF dec.ok THEN Ok(f32_nearest(dec.v)) ELSE dec

\* float < 0.0 || float > u8::MAX as f32
f32_out_of_u8_range(f) ==
    (f.neg /\ f.num > 0) \/ (~f.neg /\ f.exp < 24 /\ f.num > 255 * (2 ^ f.exp))

\* float >= u8::MAX as f32
f32_ge_255(f) == ~f.neg /\ f.exp < 24 /\ f.num >= 255 * (2 ^ f.exp)

\* float > u8::MAX as f32
f32_gt_255(f) == ~f.neg /\ f.exp < 24 /\ f.num > 255 * (2 ^ f.exp)

\* float.trunc() as u8: the cast saturates.
f32_trunc_as_u8(f) ==
    IF f.neg \/ f.exp > 24 THEN 0
    ELSE IF f.num \div (2 ^ f.exp) > 255 THEN 255
    ELSE f.num \div (2 ^ f.exp)

\* deserialize_and_floor_u8_from_float_str, applied to the String read.
floor_u8_of(f) ==
    IF ~f.ok THEN Err("custom", "failed to parse f32")
    ELSE IF f32_gt_255(f.v) THEN Err("custom", "expected a value less than 255.0")
    ELSE Ok(f32_trunc_as_u8(f.v))

floor_u8_from(s) == IF ~s.ok THEN s ELSE floor_u8_of(parse_f32(s.v))

deserialize_and_floor_u8_from_float_str(v) == floor_u8_from(de_String(v))

\* The last entry of an object with key k (serde_json::Map::get on a Value).
RECURSIVE map_get(_, _, _)
map_get(m, k, i) ==
    IF i = 0 THEN None
    ELSE IF m[i].k = k THEN Some(m[i].v) ELSE map_get(m, k, i - 1)

\* extract_guid_from_requisite
extract_guid_from_requisite(v) ==
    IF v.t # "obj" THEN Err("custom", "expected JSON object")
    ELSE LET g == map_get(v.m, "GUID", Len(v.m)) IN
         IF ~g.some THEN Err("custom", "missing field GUID")
         ELSE IF g.v.t # "str" THEN Err("custom", "expected JSON string for field GUID")
         ELSE map_err_custom(guid_from_braced(g.v.s))

\* `match (title, courses)` of RequirementVisitor::visit_map, Courses arm first.
requirement_match_courses_first(title, req_narrative, courses) ==
    IF courses.some
    THEN [variant |-> "Courses", title |-> title, courses |-> courses.v]
    ELSE IF title.some /\ Contains(title.v, STR_Select)
    THEN [variant |-> "SelectFromCourses", title |-> title.v, courses |-> courses]
    ELSE [variant |-> "Label", title |-> title, req_narrative |-> req_narrative]

\* `match (title, courses)` of RequirementVisitor::visit_map, lines 246..258.
requirement_match(title, req_narrative, courses) ==
    IF title.some /\ Contains(title.v, STR_Select)
    THEN [variant |-> "SelectFromCourses", title |-> title.v, courses |-> courses]
    ELSE IF courses.some
    THEN [variant |-> "Courses", title |-> title, courses |-> courses.v]
    ELSE [variant |-> "Label", title |-> title, req_narrative |-> req_narrative]

\* The end of CourseEntriesVisitor::visit_map with `number` demanded of a
\* Label as well.
course_entry_label_needs_number(s) ==
    IF \E k \in DOMAIN s : ~s[k].some THEN Err("missing_field", "a key")
    ELSE IF ~s.number.v.some
         THEN Err("custom", "number field should not be null")
    ELSE IF s.is_narrative.v
    THEN IF ~s.name.v.some
         THEN Err("custom", "name field for Label should not be null")
         ELSE Ok([variant |-> "Label", url |-> s.url.v, guid |-> s.guid.v,
                  name |-> s.name.v.v, subject_code |-> s.subject_code.v,
                  credits |-> s.credits.v, number |-> s.number.v])
    ELSE IF ~s.subject_code.v.some
         THEN Err("custom", "subject_code field for Course should not be null")
    ELSE Ok([variant |-> "Course", url |-> s.url.v, path |-> s.path.v,
             guid |-> s.guid.v, name |-> s.name.v, number |-> s.number.v.v,
             subject_name |-> s.subject_name.v, subject_code |-> s.subject_code.v.v,
             credits |-> s.credits.v])

\* The end of CourseEntriesVisitor::visit_map, lines 406..450: s are the slots.
course_entry(s) ==
    IF ~s.url.some THEN Err("missing_field", "url")
    ELSE IF ~s.path.some THEN Err("missing_field", "path")
    ELSE IF ~s.guid.some THEN Err("missing_field", "guid")
    ELSE IF ~s.name.some THEN Err("missing_field", "name")
    ELSE IF ~s.number.some THEN Err("missing_field", "number")
    ELSE IF ~s.subject_name.some THEN Err("missing_field", "subject_name")
    ELSE IF ~s.subject_code.some THEN Err("missing_field", "subject_code")
    ELSE IF ~s.credits.some THEN Err("missing_field", "credits")
    ELSE IF ~s.is_narrative.some THEN Err("missing_field", "is_narrative")
    ELSE IF s.is_narrative.v
    THEN IF ~s.name.v.some
         THEN Err("custom", "name field for Label should not be null")
         ELSE Ok([variant |-> "Label", url |-> s.url.v, guid |-> s.guid.v,
                  name |-> s.name.v.v, subject_code |-> s.subject_code.v,
                  credits |-> s.credits.v, number |-> s.number.v])
    ELSE IF ~s.number.v.some
         THEN Err("custom", "number field for Course should not be null")
    ELSE IF ~s.subject_code.v.some
         THEN Err("custom", "subject_code field for Course should not be null")
    ELSE Ok([variant |-> "Course", url |-> s.url.v, path |-> s.path.v,
             guid |-> s.guid.v, name |-> s.name.v, number |-> s.number.v.v,
             subject_name |-> s.subject_name.v, subject_code |-> s.subject_code.v.v,
             credits |-> s.credits.v])

\* credits_min of CourseDetailsVisitor::visit_map, lines 596..611.
credits_min_of(slot) ==
    IF ~slot.some THEN Err("missing_field", "credits_min")
    ELSE IF ~slot.v.some THEN Ok(0)
    ELSE LET f == parse_f32(slot.v.v) IN
         IF ~f.ok THEN f
         ELSE IF f32_gt_255(f.v)
         THEN Err("custom", "value of credits_max exceeded u8::MAX (255)")
         ELSE Ok(f32_trunc_as_u8(f.v))

\* credits_max of CourseDetailsVisitor::visit_map, lines 613..630.
credits_max_of(slot) ==
    IF ~slot.some THEN Err("missing_field", "credits_max")
    ELSE IF ~slot.v.some THEN Ok(None)
    ELSE LET f == parse_f32(slot.v.v) IN
         IF ~f.ok THEN f
         ELSE IF ~f32_gt_255(f.v) THEN Ok(Some(f32_trunc_as_u8(f.v)))
         ELSE Err("custom", "value of credits_max exceeded 255")

\* Option<Result<T, E>>::transpose of Some(r), then `?`.
transpose_some(r) == IF r.ok THEN Ok(Some(r.v)) ELSE r

\* prerequisite / corequisite of CourseDetailsVisitor::visit_map, lines 633..638.
requisite_of(slot) ==
    IF ~slot.some THEN Ok(None)
    ELSE transpose_some(extract_guid_from_requisite(slot.v))

\* GUID of CourseDetailsVisitor::visit_map, lines 640..642.
details_guid_of(slot) ==
    IF ~slot.some THEN Err("missing_field", "GUID")
    ELSE map_err_custom(guid_from_braced(slot.v))

\* The end of CourseDetailsVisitor::visit_map, lines 596..662: the five
\* fallible conversions in the order the code makes them, then the record.
construct_course_details(s, credits_min, credits_max, prerequisite, corequisite, guid) ==
    IF ~credits_min.ok THEN credits_min
    ELSE IF ~credits_max.ok THEN credits_max
    ELSE IF ~prerequisite.ok THEN prerequisite
    ELSE IF ~corequisite.ok THEN corequisite
    ELSE IF ~guid.ok THEN guid
    ELSE Ok([url |-> s.url.v, guid |-> guid.v, path |-> s.path.v,
             subject_code |-> s.subject_code.v,
             subject_name |-> s.subject_name.v, number |-> s.number.v,
             name |-> s.name.v, credits_min |-> credits_min.v,
             credits_max |-> credits_max.v,
             description |-> s.description.v,
             prerequisite_narrative |-> s.prerequisite_narrative.v,
             prerequisite |-> prerequisite.v,
             corequisite_narrative |-> s.corequisite_narrative.v,
             corequisite |-> corequisite.v])

\* The end of CourseDetailsVisitor::visit_map, lines 583..662: s are the slots.
course_details(s) ==
    IF ~s.url.some THEN Err("missing_field", "url")
    ELSE IF ~s.path.some THEN Err("missing_field", "path")
    ELSE IF ~s.subject_code.some THEN Err("missing_field", "subject_code")
    ELSE IF ~s.subject_name.some THEN Err("missing_field", "subject_name")
    ELSE IF ~s.number.some THEN Err("missing_field", "number")
    ELSE IF ~s.name.some THEN Err("missing_field", "name")
    ELSE IF ~s.description.some THEN Err("missing_field", "description")
    ELSE IF ~s.prerequisite_narrative.some
         THEN Err("missing_field", "prerequisite_narrative")
    ELSE IF ~s.corequisite_narrative.some
         THEN Err("missing_field", "corequisite_narrative")
    ELSE construct_course_details(s, credits_min_of(s.credits_min),
                                  credits_max_of(s.credits_max),
                                  requisite_of(s.prerequisite),
                                  requisite_of(s.corequisite),
                                  details_guid_of(s.GUID))

InvalidType(T) == Err("invalid_type", T)

\* The key loop of ExtractGuidVisitor::visit_map over the entries of m from
\* position i: it ends with the entries, at a key that cannot be lent, or
\* after the value of "GUID"; `rest` tells whether the mapping has input the
\* visitor did not read.
RECURSIVE extract_guid_loop(_, _)

\* The "GUID" arm: `guid = map.next_value()?; break;`
guid_then_break(val, rest) ==
    IF val.ok THEN [ok |-> TRUE, v |-> val.v, rest |-> rest] ELSE val

extract_guid_loop(m, i) ==
    IF i > Len(m) THEN [ok |-> TRUE, v |-> None, rest |-> FALSE]
    ELSE IF ~next_key_str(m[i]).ok THEN [ok |-> TRUE, v |-> None, rest |-> TRUE]
    ELSE IF m[i].k = "GUID" THEN guid_then_break(de_Option_String(m[i].v), i < Len(m))
    ELSE extract_guid_loop(m, i + 1)

\* `match guid` of ExtractGuidVisitor::visit_map.
extract_guid_match(guid) ==
    IF ~guid.some THEN Ok(None)
    ELSE IF str_len(guid.v) < 32 THEN Err("custom", "string not long enough to be GUID")
    ELSE transpose_some(map_err_custom(guid_from_braced(guid.v)))

\* After visit_map returns Ok, the deserializer expects the closing brace
\* (serde_json's end_map).
map_end(r, rest) ==
    IF ~r.ok THEN r
    ELSE IF rest THEN Err("syntax", "trailing characters")
    ELSE r

ExtractGuidVisitor_visit_map(r) ==
    IF ~r.ok THEN r ELSE map_end(extract_guid_match(r.v), r.rest)

\* deserialize_extract_guid_only
deserialize_extract_guid_only(v) ==
    IF v.t # "obj" THEN InvalidType("a string representing a GUID surounded by curly braces")
    ELSE ExtractGuidVisitor_visit_map(extract_guid_loop(v.m, 1))

RECURSIVE de(_, _)

\* The loop over map.next_key() of a visit_map: arms of `match key`, whether
\* keys are read as &str with `?` (CourseDetails) or as String by
\* `while let Ok(Some(key))`, the entries m from position i, the slots so
\* far.  An unrecognized key's value is read as IgnoredAny and dropped.
RECURSIVE map_loop(_, _, _, _, _)
map_loop(arms, borrowed, m, i, slots) ==
    IF i > Len(m) THEN Ok(slots)
    ELSE LET key == IF borrowed THEN next_key_str(m[i]) ELSE next_key_String(m[i]) IN
         IF ~key.ok THEN (IF borrowed THEN key ELSE Ok(slots))
         ELSE IF key.v \in DOMAIN arms
         THEN IF slots[key.v].some THEN Err("duplicate_field", arms[key.v].dup)
              ELSE LET val == de(arms[key.v].de, m[i].v) IN
                   IF val.ok
                   THEN map_loop(arms, borrowed, m, i + 1,
                                 [slots EXCEPT ![key.v] = Some(val.v)])
                   ELSE val
         ELSE map_loop(arms, borrowed, m, i + 1, slots)

\* Vec<T>::deserialize: `while let Some(value) = seq.next_element()?`.
RECURSIVE vec_loop(_, _, _, _)
vec_loop(T, a, i, acc) ==
    IF i > Len(a) THEN Ok(acc)
    ELSE LET x == de(T, a[i]) IN
         IF x.ok THEN vec_loop(T, a, i + 1, Append(acc, x.v)) ELSE x

\* `while let Ok(Some(x)) = seq.next_element()`: the loop ends at the end of
\* the sequence or at the first element that fails to decode; `next` is the
\* position of the first element the SeqAccess has not handed out.
RECURSIVE seq_while_ok(_, _, _, _)
seq_while_ok(T, a, i, acc) ==
    IF i > Len(a) THEN [ok |-> TRUE, v |-> acc, next |-> i]
    ELSE LET x == de(T, a[i]) IN
         IF x.ok THEN seq_while_ok(T, a, i + 1, Append(acc, x.v))
         ELSE IF IsPanic(x) THEN x
         ELSE [ok |-> TRUE, v |-> acc, next |-> i + 1]

\* After visit_seq returns Ok, the deserializer checks that the visitor took
\* every element (serde_json's visit_array, serde's SeqDeserializer::end;
\* reading text, end_seq finds the next element instead of the closing
\* bracket).
seq_end(r, a) ==
    IF ~r.ok THEN r
    ELSE IF r.next <= Len(a) THEN Err("invalid_length", "fewer elements in array")
    ELSE Ok(r.v)

\* RequirementsVisitor::visit_map
Requirements_visit_map(m) ==
    LET r == map_loop(RequirementsArms, FALSE, m, 1, EmptySlots(RequirementsArms)) IN
    IF ~r.ok THEN r
    ELSE IF ~r.v.title.some THEN Err("missing_field", "title")
    ELSE IF ~r.v.requirement_list.some THEN Err("missing_field", "requirements_list")
    ELSE LET title == r.v.title.v
             requirements == r.v.requirement_list.v
         IN Ok([variant |-> "Single",
                module |->
                  IF requirements.variant = "Single"
                  THEN [variant |-> "SingleBasicRequirement", title |-> title,
                        requirement |-> requirements.requirement]
                  ELSE IF requirements.variant = "Many"
                  THEN [variant |-> "BasicRequirements", title |-> title,
                        requirements |-> requirements.requirements]
                  ELSE [variant |-> "SingleBasicRequirement", title |-> title,
                        requirement |->
                          [variant |-> "Courses", title |-> requirements.title,
                           courses |-> <<requirements.course>>]]])

\* RequirementsVisitor::visit_seq
Requirements_visit_seq(a) ==
    LET r == seq_while_ok("RequirementModule", a, 1, <<>>) IN
    IF ~r.ok THEN r
    ELSE [ok |-> TRUE, v |-> [variant |-> "Many", modules |-> r.v], next |-> r.next]

\* RequirementModuleVisitor::visit_map with a module that has no requirement
\* reported as Unimplemented.
RequirementModule_visit_map_empty_unimplemented(m) ==
    LET r == map_loop(RequirementModuleArms, FALSE, m, 1,
                      EmptySlots(RequirementModuleArms)) IN
    IF ~r.ok THEN r
    ELSE IF ~r.v.title.some THEN Err("missing_field", "title")
    ELSE IF ~r.v.requirement_list.some THEN Err("missing_field", "requirements")
    ELSE IF r.v.requirement_list.v = <<>>
    THEN Ok([variant |-> "Unimplemented", title |-> r.v.title.v])
    ELSE Ok([variant |-> "BasicRequirements", title |-> r.v.title.v,
             requirements |-> r.v.requirement_list.v])

\* RequirementModuleVisitor::visit_map
RequirementModule_visit_map(m) ==
    LET r == map_loop(RequirementModuleArms, FALSE, m, 1,
                      EmptySlots(RequirementModuleArms)) IN
    IF ~r.ok THEN r
    ELSE IF ~r.v.title.some THEN Err("missing_field", "title")
    ELSE IF ~r.v.requirement_list.some THEN Err("missing_field", "requirements")
    ELSE Ok([variant |-> "BasicRequirements", title |-> r.v.title.v,
             requirements |-> r.v.requirement_list.v])

\* RequirementVisitor::visit_map
Requirement_visit_map(m) ==
    LET r == map_loop(RequirementArms, FALSE, m, 1, EmptySlots(RequirementArms)) IN
    IF ~r.ok THEN r
    ELSE IF ~r.v.title.some THEN Err("missing_field", "title")
    ELSE IF ~r.v.req_narrative.some THEN Err("missing_field", "req_narrative")
    ELSE Ok(requirement_match(r.v.title.v, r.v.req_narrative.v, r.v.course))

\* CourseEntriesVisitor::visit_map
CourseEntries_visit_map(m) ==
    LET r == map_loop(CourseEntriesArms, FALSE, m, 1, EmptySlots(CourseEntriesArms)) IN
    IF ~r.ok THEN r
    ELSE LET entry == course_entry(r.v) IN
         IF entry.ok THEN Ok(<<entry.v>>) ELSE entry

\* RawCourseEntry::deserialize (parsing/courses.rs), for raw entries that are
\* leaves: a mapping with the keys of a course or label leaf.
RawCourseEntry_deserialize(v) ==
    IF v.t = "obj"
    THEN LET r == map_loop(CourseEntriesArms, FALSE, v.m, 1, EmptySlots(CourseEntriesArms))
         IN IF r.ok THEN course_entry(r.v) ELSE r
    ELSE InvalidType("RawCourseEntry")

\* CoursesParser::new(raw_entries).parse() (parsing/courses.rs), for raw
\* entries that are leaves: the leaves in document order.
CoursesParser_parse(raw_entries) == Ok(raw_entries)

\* CourseEntriesVisitor::visit_seq
CourseEntries_visit_seq(a) ==
    LET r == seq_while_ok("RawCourseEntry", a, 1, <<>>) IN
    IF ~r.ok THEN r
    ELSE LET course_entries == CoursesParser_parse(r.v) IN
         IF course_entries.ok
         THEN [ok |-> TRUE, v |-> course_entries.v, next |-> r.next]
         ELSE Err("custom", course_entries.what)

\* CourseDetailsVisitor::visit_map
CourseDetails_visit_map(m) ==
    LET r == map_loop(CourseDetailsArms, TRUE, m, 1, EmptySlots(CourseDetailsArms)) IN
    IF ~r.ok THEN r ELSE course_details(r.v)

\* #[derive(Deserialize)] struct SingleCourseRequirement { title, course }
SingleCourseRequirementArms ==
    [title |-> Arm("Option<String>", "title"), course |-> Arm("Course", "course")]

\* struct SingleCourseRequirement with #[serde(deny_unknown_fields)].
SingleCourseRequirement_deny_unknown_fields(m) ==
    LET r == map_loop(SingleCourseRequirementArms, FALSE, m, 1,
                      EmptySlots(SingleCourseRequirementArms)) IN
    IF \E i \in 1 .. Len(m) : m[i].k \notin DOMAIN SingleCourseRequirementArms
    THEN Err("unknown_field", "expected title or course")
    ELSE IF ~r.ok THEN r
    ELSE IF ~r.v.course.some THEN Err("missing_field", "course")
    ELSE Ok([title |-> IF r.v.title.some THEN r.v.title.v ELSE None,
             course |-> r.v.course.v])

SingleCourseRequirement_visit_map(m) ==
    LET r == map_loop(SingleCourseRequirementArms, FALSE, m, 1,
                      EmptySlots(SingleCourseRequirementArms)) IN
    IF ~r.ok THEN r
    ELSE IF ~r.v.course.some THEN Err("missing_field", "course")
    ELSE Ok([title |-> IF r.v.title.some THEN r.v.title.v ELSE None,
             course |-> r.v.course.v])

\* #[derive(Deserialize)] struct Course of the crate root: the keys of a
\* course leaf; name and subject_name are optional.
CourseArms ==
    [url |-> Arm("String", "url"),
     path |-> Arm("String", "path"),
     guid |-> Arm("guid_with_curly_braces", "guid"),
     name |-> Arm("Option<String>", "name"),
     number |-> Arm("String", "number"),
     subject_name |-> Arm("Option<String>", "subject_name"),
     subject_code |-> Arm("String", "subject_code"),
     credits |-> Arm("course_credits", "credits")]

Course_visit_map(m) ==
    LET r == map_loop(CourseArms, FALSE, m, 1, EmptySlots(CourseArms)) IN
    IF ~r.ok THEN r
    ELSE LET s == r.v IN
         IF ~s.url.some THEN Err("missing_field", "url")
         ELSE IF ~s.path.some THEN Err("missing_field", "path")
         ELSE IF ~s.guid.some THEN Err("missing_field", "guid")
         ELSE IF ~s.number.some THEN Err("missing_field", "number")
         ELSE IF ~s.subject_code.some THEN Err("missing_field", "subject_code")
         ELSE IF ~s.credits.some THEN Err("missing_field", "credits")
         ELSE Ok([variant |-> "Course", url |-> s.url.v, path |-> s.path.v,
                  guid |-> s.guid.v,
                  name |-> IF s.name.some THEN s.name.v ELSE None,
                  number |-> s.number.v,
                  subject_name |-> IF s.subject_name.some THEN s.subject_name.v ELSE None,
                  subject_code |-> s.subject_code.v, credits |-> s.credits.v])

\* guid::deserialize_guid_with_curly_braces
guid_with_curly_braces_of(s) ==
    IF ~s.ok THEN s ELSE map_err_custom(guid_from_braced(s.v))

deserialize_guid_with_curly_braces(v) == guid_with_curly_braces_of(de_borrowed_str(v))

\* impl Deserialize for Guid: GuidVisitor::visit_str
Guid_deserialize(v) ==
    IF v.t = "str" THEN map_err_custom(try_from(v.s)) ELSE InvalidType("Guid")

\* #[serde(untagged)] enum RawRequirement with Single declared first.
RawRequirement_untagged_single_first(v) ==
    LET b == de("Requirement", v) IN
    IF b.ok THEN Ok([variant |-> "Single", requirement |-> b.v])
    ELSE IF IsPanic(b) THEN b
    ELSE LET a == de("SingleCourseRequirement", v) IN
         IF a.ok
         THEN Ok([variant |-> "SingleCourseRequirement", title |-> a.v.title,
                  course |-> a.v.course])
         ELSE IF IsPanic(a) THEN a
         ELSE LET c == de("Vec<Requirement>", v) IN
              IF c.ok THEN Ok([variant |-> "Many", requirements |-> c.v])
              ELSE c

\* #[serde(untagged)] enum RawRequirement: the variants are tried in the
\* order they are declared, the first that decodes wins.
RawRequirement_untagged(v) ==
    LET a == de("SingleCourseRequirement", v) IN
    IF a.ok
    THEN Ok([variant |-> "SingleCourseRequirement", title |-> a.v.title,
             course |-> a.v.course])
    ELSE IF IsPanic(a) THEN a
    ELSE LET b == de("Requirement", v) IN
         IF b.ok THEN Ok([variant |-> "Single", requirement |-> b.v])
         ELSE IF IsPanic(b) THEN b
         ELSE LET c == de("Vec<Requirement>", v) IN
              IF c.ok THEN Ok([variant |-> "Many", requirements |-> c.v])
              ELSE IF IsPanic(c) THEN c
              ELSE Err("custom",
                       "data did not match any variant of untagged enum RawRequirement")

\* <T as Deserialize>::deserialize of the JSON value v.
de(T, v) ==
    CASE T = "Option<String>" -> de_Option_String(v)
      [] T = "String" -> de_String(v)
      [] T = "Value" -> Ok(v)
      [] T = "course_guid" -> de_course_guid(v)
      [] T = "guid_with_curly_braces" -> deserialize_guid_with_curly_braces(v)
      [] T = "Guid" -> Guid_deserialize(v)
      [] T = "extract_guid_only" -> deserialize_extract_guid_only(v)
      [] T = "floor_u8_from_float_str" -> deserialize_and_floor_u8_from_float_str(v)
      [] T = "course_credits" -> de_course_credits(v)
      [] T = "is_narrative" -> de_is_narrative(v)
      [] T = "RawRequirement" -> RawRequirement_untagged(v)
      [] T = "Vec<Requirement>" ->
            IF v.t = "arr" THEN vec_loop("Requirement", v.a, 1, <<>>) ELSE InvalidType(T)
      [] T = "Requirements" ->
            IF v.t = "obj" THEN Requirements_visit_map(v.m)
            ELSE IF v.t = "arr" THEN seq_end(Requirements_visit_seq(v.a), v.a)
            ELSE InvalidType(T)
      [] T = "RequirementModule" ->
            IF v.t = "obj" THEN RequirementModule_visit_map(v.m) ELSE InvalidType(T)
      [] T = "Requirement" ->
            IF v.t = "obj" THEN Requirement_visit_map(v.m) ELSE InvalidType(T)
      [] T = "CourseEntries" ->
            IF v.t = "obj" THEN CourseEntries_visit_map(v.m)
            ELSE IF v.t = "arr" THEN seq_end(CourseEntries_visit_seq(v.a), v.a)
            ELSE InvalidType(T)
      [] T = "RawCourseEntry" -> RawCourseEntry_deserialize(v)
      [] T = "CourseDetails" ->
            IF v.t = "obj" THEN CourseDetails_visit_map(v.m) ELSE InvalidType(T)
      [] T = "SingleCourseRequirement" ->
            IF v.t = "obj" THEN SingleCourseRequirement_visit_map(v.m) ELSE InvalidType(T)
      [] T = "Course" ->
            IF v.t = "obj" THEN Course_visit_map(v.m) ELSE InvalidType(T)

\* ------------------------------------------------------------ guid inputs

MaxSeed == 2
MaxHyphens == 5
MaxCut == 2
MaxExtra == 2

\* guid.rs tests: C7AD875E-1344-4D9B-A883-32E748890908 and
\* 08DD69D3-9F67-4A81-A5AA-5738B6A79D2B.
TestBytes ==
    { <<199, 173, 135, 94, 19, 68, 77, 155, 168, 131, 50, 231, 72, 137, 9, 8>>,
      <<8, 221, 105, 211, 159, 103, 74, 129, 165, 170, 87, 56, 182, 167, 157, 43>> }

ToInner(bs) == [k \in 0 .. GUID_BYTES - 1 |-> bs[k + 1]]

GuidValues ==
    { ToInner(bs) : bs \in TestBytes }
    \cup { [k \in 0 .. GUID_BYTES - 1 |-> (a * 85 + k * a * 16) % 256] : a \in 0 .. MaxSeed }

\* The hex digits (values 0..15) of a 16-byte value, high nibble first.
NibblesOf(inner) ==
    [j \in 1 .. 2 * GUID_BYTES |->
        IF j % 2 = 1 THEN inner[(j - 1) \div 2] \div 16 ELSE inner[(j - 1) \div 2] % 16]

Styles == {"upper", "lower", "mixed"}

Spell(n, style, j) ==
    IF style = "upper" \/ (style = "mixed" /\ j % 3 = 0) THEN HexUpper[n + 1]
    ELSE HexLower[n + 1]

\* A hyphen layout is the set of digit counts after which a hyphen stands.
HyphenSlots == {0, 1, 8, 12, 16, 20, 32}
Canonical == {8, 12, 16, 20}
Layouts == { h \in SUBSET HyphenSlots : Cardinality(h) <= MaxHyphens }

RECURSIVE Hyphenate(_, _, _)
Hyphenate(ds, h, j) ==
    (IF j \in h THEN <<"-">> ELSE <<>>)
    \o (IF j >= Len(ds) THEN <<>> ELSE <<ds[j + 1]>> \o Hyphenate(ds, h, j + 1))

BadChars == {"g", "G", "+", "U+E9"}
ExtraChars == {"0", "-", "g", "U+E9"}

RECURSIVE SeqsUpTo(_, _)
SeqsUpTo(S, n) ==
    IF n = 0 THEN {<<>>}
    ELSE SeqsUpTo(S, n - 1)
         \cup { Append(q, x) : q \in { r \in SeqsUpTo(S, n - 1) : Len(r) = n - 1 }, x \in S }

WellFormedTexts ==
    { Hyphenate([j \in 1 .. 2 * GUID_BYTES |-> Spell(NibblesOf(v)[j], st, j)], h, 0) :
        v \in GuidValues, st \in Styles, h \in Layouts }

\* Damaged texts: digits cut from the end, one digit replaced by a character
\* that is no hex digit, characters appended.
Damaged(v, h, cut, at, bad, extra) ==
    LET ds == [j \in 1 .. 2 * GUID_BYTES - cut |->
                 IF j = at THEN bad ELSE Spell(NibblesOf(v)[j], "upper", j)]
    IN Hyphenate(ds, h, 0) \o extra

DamagedTexts ==
    { Damaged(ToInner(bs), h, cut, at, bad, extra) :
        bs \in TestBytes, h \in {{}, Canonical}, cut \in 0 .. MaxCut,
        at \in {0, 1, 16, 30}, bad \in BadChars, extra \in SeqsUpTo(ExtraChars, MaxExtra) }

GuidTexts == WellFormedTexts \cup DamagedTexts

\* ------------------------------------------------------------ JSON inputs

MaxUnknown == 2
MaxModules == 3

Braced(text) == <<"{">> \o text \o <<"}">>

GuidA == ToInner(<<199, 173, 135, 94, 19, 68, 77, 155, 168, 131, 50, 231, 72, 137, 9, 8>>)
GuidB == ToInner(<<8, 221, 105, 211, 159, 103, 74, 129, 165, 170, 87, 56, 182, 167, 157, 43>>)

TextOf(v) ==
    Hyphenate([j \in 1 .. 2 * GUID_BYTES |-> Spell(NibblesOf(v)[j], "upper", j)], Canonical, 0)

T_Core == <<"C", "o", "r", "e">>
T_SelectOne == STR_Select \o <<" ", "1">>
T_ToSelect == <<"t", "o", " ">> \o STR_Select
T_select == <<"s", "e", "l", "e", "c", "t">>
T_Selec == <<"S", "e", "l", "e", "c">>

Titles == {T_Core, T_SelectOne, T_ToSelect, T_select, T_Selec}

TitleValues == {JNull} \cup { JStr(t) : t \in Titles }
NarrativeValues == {JNull, JStr(<<"n">>)}

\* A single-object `course` value: a course or a label leaf.
Leaf(guid, name, number, is_narrative) ==
    << Entry("url", JStr(<<"u">>)), Entry("path", JStr(<<"p">>)),
       Entry("guid", JStr(Braced(TextOf(guid)))), Entry("name", name),
       Entry("number", number), Entry("subject_name", JNull),
       Entry("subject_code", JStr(<<"C", "S">>)), Entry("credits", JStr(<<"3", "-", "4">>)),
       Entry("is_narrative", JStr(is_narrative)) >>

CourseLeaf == Leaf(GuidA, JNull, JStr(<<"1", "0", "1">>), STR_False)
LabelLeaf == Leaf(GuidB, JStr(<<"n">>), JNull, STR_True)

CourseValues ==
    { JObj(CourseLeaf), JObj(LabelLeaf), JArr(<<>>), JArr(<<JObj(CourseLeaf), JObj(LabelLeaf)>>) }

\* Edits of a document: at most one defect (an entry dropped, or one of the
\* document's own entries or a title added a second time, in front or at the
\* end), then up to MaxUnknown entries no arm matches, in front or at the end.
DropAt(m, i) == SubSeq(m, 1, i - 1) \o SubSeq(m, i + 1, Len(m))

UnknownEntries ==
    { Entry("extra", JNull), Entry("extra", JObj(<<Entry("title", JNull)>>)),
      EntryEsc("ex\\tra", JNum(1)) }

RepeatEntries(m) ==
    { m[i] : i \in 1 .. Len(m) } \cup { Entry("title", JNull), Entry("title", JStr(T_Core)) }

Defects(m) ==
    {m} \cup { DropAt(m, i) : i \in 1 .. Len(m) }
        \cup { <<e>> \o m : e \in RepeatEntries(m) }
        \cup { Append(m, e) : e \in RepeatEntries(m) }

RECURSIVE WithUnknown(_, _)
WithUnknown(D, n) ==
    IF n = 0 THEN D
    ELSE WithUnknown(D \cup { <<e>> \o m : e \in UnknownEntries, m \in D }
                       \cup { Append(m, e) : e \in UnknownEntries, m \in D }, n - 1)

EditedDocs(D) == WithUnknown(UNION { Defects(m) : m \in D }, MaxUnknown)

\* Requirement: every title, narrative and course shape, in two key orders,
\* and edits of two of them.
RequirementShapes ==
    { <<Entry("title", t), Entry("req_narrative", n)>> : t \in TitleValues, n \in NarrativeValues }
    \cup { <<Entry("title", t), Entry("req_narrative", n), Entry("course", c)>> :
             t \in TitleValues, n \in NarrativeValues, c \in CourseValues }
    \cup { <<Entry("course", c), Entry("extra", JNull), Entry("req_narrative", n), Entry("title", t)>> :
             t \in TitleValues, n \in NarrativeValues, c \in CourseValues }
    \cup { <<Entry("title", t), Entry("req_narrative", JNull), Entry("course", c)>> :
             t \in TitleValues, c \in {JNull, JNum(1), JStr(<<"x">>)} }

Req(t, c) ==
    <<Entry("title", t), Entry("req_narrative", JNull), Entry("course", c)>>

RequirementDocs ==
    RequirementShapes
    \cup EditedDocs({Req(JStr(T_Core), JObj(CourseLeaf)), Req(JStr(T_SelectOne), JArr(<<>>))})

\* RequirementModule (an element of a Requirements list).
Module(t, list) == <<Entry("title", t), Entry("requirement_list", list)>>

ReqList ==
    JArr(<<JObj(Req(JStr(T_Core), JObj(CourseLeaf))),
           JObj(<<Entry("title", JStr(T_SelectOne)), Entry("req_narrative", JStr(<<"n">>))>>)>>)

RequirementModuleDocs ==
    EditedDocs({Module(JStr(T_Core), ReqList), Module(JNull, JArr(<<>>))})
    \cup { Module(JStr(T_Core), l) :
             l \in {JObj(Req(JStr(T_Core), JObj(CourseLeaf))), JNull,
                    JArr(<<JObj(<<Entry("title", JNull)>>)>>)} }

\* Requirements: a mapping, or a list of modules.
ModuleElements ==
    { JObj(Module(JStr(T_Core), ReqList)),
      JObj(Module(JNull, JArr(<<>>))),
      JObj(<<Entry("requirement_list", JArr(<<>>))>>),
      JObj(Module(JStr(T_Core), JArr(<<JObj(<<Entry("title", JNull)>>)>>))),
      JObj(<<Entry("title", JNull), Entry("title", JNull), Entry("requirement_list", JArr(<<>>))>>),
      JNull }

NarrativeLeaf == Leaf(GuidB, JStr(<<"n">>), JStr(<<"1", "0", "1">>), STR_True)

RequirementsPayloads ==
    { ReqList, JArr(<<>>),
      JObj(Req(JStr(T_Core), JObj(CourseLeaf))),
      JObj(Req(JStr(T_SelectOne), JObj(CourseLeaf))),
      JObj(Req(JStr(T_Core), JObj(NarrativeLeaf))),
      JObj(Req(JNull, JArr(<<JObj(CourseLeaf)>>))),
      JObj(Req(JStr(T_SelectOne), JObj(LabelLeaf))),
      JObj(<<Entry("title", JStr(T_SelectOne)), Entry("course", JObj(CourseLeaf))>>),
      JObj(<<Entry("title", JNull), Entry("req_narrative", JNull)>>),
      JNull }

RequirementsDocs ==
    { JObj(m) :
        m \in EditedDocs({ <<Entry("title", JStr(T_Core)), Entry("req_narrative", JNull),
                             Entry("requirement_list", ReqList)>> })
              \cup { <<Entry("title", JStr(T_Core)), Entry("requirement_list", l)>> :
                       l \in RequirementsPayloads } }
    \cup { JArr(a) : a \in SeqsUpTo(ModuleElements, MaxModules) }

\* CourseEntries: a single object, or a list of raw entries.
\* Texts supplied where a brace-wrapped identifier is expected: empty, one
\* character, the braces alone, a first character of two bytes, no braces,
\* and well-formed ones.
BraceTexts ==
    { <<>>, <<"{">>, <<"{", "}">>,
      <<"U+E9">> \o TextOf(GuidA) \o <<"}">>,
      TextOf(GuidA),
      Braced(TextOf(GuidA)),
      Braced(Hyphenate([j \in 1 .. 2 * GUID_BYTES |-> Spell(NibblesOf(GuidB)[j], "lower", j)],
                       {}, 0)) }

BraceValues ==
    { JStr(t) : t \in BraceTexts } \cup {JNull, JStrEsc(Braced(TextOf(GuidA)))}

\* Texts of is_narrative: the two accepted, other spellings, the empty text.
PseudoBooleanTexts ==
    { STR_True, STR_False, <<"t", "r", "u", "e">>, <<"f", "a", "l", "s", "e">>,
      <<"T", "R", "U", "E">>, <<>>, <<"T", "r", "u">>, <<"1">> }

PseudoBooleanValues ==
    { JStr(t) : t \in PseudoBooleanTexts } \cup {JNull, JStrEsc(STR_True)}

CourseEntriesDocs ==
    { JObj(m) :
        m \in EditedDocs({CourseLeaf, LabelLeaf})
              \cup { Leaf(GuidA, n, k, b) :
                       n \in {JNull, JStr(<<"n">>)}, k \in {JNull, JStr(<<"1">>)},
                       b \in {STR_True, STR_False, <<"t", "r", "u", "e">>} }
              \cup { [Leaf(GuidA, n, k, b) EXCEPT ![7] = Entry("subject_code", JNull)] :
                       n \in {JNull, JStr(<<"n">>)}, k \in {JNull, JStr(<<"1">>)},
                       b \in {STR_True, STR_False} }
              \cup { [CourseLeaf EXCEPT ![3] = Entry("guid", g)] : g \in BraceValues }
              \cup { [NarrativeLeaf EXCEPT ![9] = Entry("is_narrative", b)] :
                       b \in PseudoBooleanValues } }
    \cup { JArr(a) : a \in SeqsUpTo({JObj(CourseLeaf), JObj(LabelLeaf), JObj(DropAt(CourseLeaf, 1))}, 2) }

\* CourseDetails.
Details(lo, hi, guid) ==
    << Entry("url", JStr(<<"u">>)), Entry("GUID", guid), Entry("path", JStr(<<"p">>)),
       Entry("subject_code", JStr(<<"C", "S">>)), Entry("subject_name", JNull),
       Entry("number", JStr(<<"1">>)), Entry("name", JStr(<<"n">>)),
       Entry("credits_min", lo), Entry("credits_max", hi),
       Entry("description", JStr(<<"d">>)), Entry("prerequisite_narrative", JNull),
       Entry("corequisite_narrative", JNull) >>

FloatTexts ==
    { <<"3">>, <<"3", ".", "5">>, <<"2", "5", "5">>, <<"2", "5", "5", ".", "5">>,
      <<"2", "5", "6">>, <<"-", "1">>, <<"a">>, <<"0", ".", "5">>,
      <<"2", "5", "5", ".", "0", "0", "0", "0", "0", "5">>,
      <<"3", ".", "9", "9", "9", "9", "9", "9", "9">>,
      <<"2", "5", "5", ".", "0", "0", "0", "0", "1">>,
      <<"3", ".", "9", "9", "9", "9", "9">>,
      <<"-", "0", ".", "5">>, <<"-", "3", "0", "0">> }

FloatValues == {JNull, JNum(3)} \cup { JStr(f) : f \in FloatTexts }

Requisite == JObj(<<Entry("name", JNull), Entry("GUID", JStr(Braced(TextOf(GuidB))))>>)

\* Requisite values: the sound one, values that are no mapping, mappings
\* without GUID or with a GUID that is no string, GUID followed by another
\* key, a key written with an escape, and every brace-wrapped text.
RequisiteValues ==
    { Requisite, JNull, JNum(1), JObj(<<>>), JObj(<<Entry("name", JNull)>>),
      JObj(<<Entry("GUID", JNull)>>), JObj(<<Entry("GUID", JNum(1))>>),
      JObj(<<Entry("GUID", JStr(Braced(TextOf(GuidB)))), Entry("name", JNull)>>),
      JObj(<<EntryEsc("na\\me", JNull), Entry("GUID", JStr(Braced(TextOf(GuidB))))>>) }
    \cup { JObj(<<Entry("GUID", g)>>) : g \in BraceValues }

CourseDetailsDocs ==
    { JObj(m) :
        m \in EditedDocs({Details(JStr(<<"3">>), JNull, JStr(Braced(TextOf(GuidA))))})
              \cup { Details(lo, hi, JStr(Braced(TextOf(GuidA)))) :
                       lo \in {JNull} \cup { JStr(f) : f \in FloatTexts },
                       hi \in {JNull} \cup { JStr(f) : f \in FloatTexts } }
              \cup { Details(JNull, JNull, JStr(Braced(TextOf(GuidA)))) \o <<Entry(k, r)>> :
                       k \in {"prerequisite", "corequisite"}, r \in RequisiteValues }
              \cup { Details(JNull, JNull, g) : g \in BraceValues }
              \cup { DropAt(Details(JNull, JNull, JStr(Braced(TextOf(GuidA)))), i) : i \in {8, 9} } }

\* ------------------------------------------------------------ state machine

NoValue == <<>>

Decoders ==
    {"Requirements", "RequirementModule", "Requirement", "CourseEntries", "CourseDetails"}

\* The decoders of one field, called through `deserialize_with`.
FieldDecoders ==
    {"guid_with_curly_braces", "floor_u8_from_float_str", "extract_guid_only", "is_narrative"}

DocsOf(T) ==
    CASE T = "guid_with_curly_braces" -> BraceValues
      [] T = "floor_u8_from_float_str" -> FloatValues
      [] T = "extract_guid_only" -> RequisiteValues
      [] T = "is_narrative" -> PseudoBooleanValues
      [] T = "Requirements" -> RequirementsDocs
      [] T = "RequirementModule" -> { JObj(m) : m \in RequirementModuleDocs }
      [] T = "Requirement" -> { JObj(m) : m \in RequirementDocs }
      [] T = "CourseEntries" -> CourseEntriesDocs
      [] T = "CourseDetails" -> CourseDetailsDocs

Calls ==
    { <<"Guid::try_from", s>> : s \in GuidTexts }
    \cup UNION { { <<T, d>> : d \in DocsOf(T) } : T \in Decoders \cup FieldDecoders }

Init ==
    /\ pc = "call"
    /\ \E c \in Calls : fn = c[1] /\ arg = c[2]
    /\ ret = NoValue
    /\ from = NoValue

\* Guid::try_from(arg)
GuidTryFrom ==
    /\ pc = "call"
    /\ fn = "Guid::try_from"
    /\ ret' = try_from(arg)
    /\ pc' = "done"
    /\ UNCHANGED <<fn, arg, from>>

\* guid.to_string() of the Guid just parsed (Display, Debug, Serialize).
GuidToString ==
    /\ pc = "done"
    /\ fn = "Guid::try_from"
    /\ ret.ok
    /\ fn' = "Guid::to_string"
    /\ arg' = ret.v
    /\ ret' = fmt(ret.v)
    /\ from' = arg
    /\ pc' = "done"

\* Guid::try_from of the text just written.
GuidReparse ==
    /\ pc = "done"
    /\ fn = "Guid::to_string"
    /\ fn' = "Guid::reparse"
    /\ arg' = ret
    /\ ret' = try_from(ret)
    /\ from' = arg
    /\ pc' = "done"

\* The decode paths that read an identifier from a string.
GuidPaths == {"Guid", "guid_with_curly_braces", "course_guid", "details_guid"}

decode_guid(path, v) ==
    IF path = "details_guid"
    THEN IF v.t = "str" THEN details_guid_of(Some(v.s)) ELSE de("String", v)
    ELSE de(path, v)

\* The text Serialize for Guid has just written is decoded again by one of
\* the identifier decode paths.
GuidRedecode ==
    /\ pc = "done"
    /\ fn = "Guid::to_string"
    /\ \E path \in GuidPaths :
         /\ fn' = "redecode"
         /\ arg' = <<path, JStr(ret)>>
         /\ ret' = decode_guid(path, JStr(ret))
    /\ from' = arg
    /\ pc' = "done"

\* examples/parse_cs_major.rs, `match reqs`: the modules of the decoded
\* Requirements; todo!() panics.
req_mods(reqs) ==
    IF reqs.variant = "Single" THEN Ok(<<reqs.module>>)
    ELSE IF reqs.variant = "Many" THEN Ok(reqs.modules)
    ELSE Panic("not yet implemented")

get_req_title(req) ==
    IF req.variant = "SelectFromCourses" THEN Some(req.title) ELSE req.title

\* Iterator::flatten over Options.
RECURSIVE flatten(_)
flatten(options) ==
    IF options = <<>> THEN <<>>
    ELSE (IF Head(options).some THEN <<Head(options).v>> ELSE <<>>) \o flatten(Tail(options))

RECURSIVE req_titles(_)
req_titles(requirements) ==
    IF requirements = <<>> THEN <<>>
    ELSE <<get_req_title(Head(requirements))>> \o req_titles(Tail(requirements))

\* `match m` of the first pass: the titles of one module.
module_titles(m) ==
    IF m.variant = "SingleBasicRequirement" THEN Ok(<<get_req_title(m.requirement)>>)
    ELSE IF m.variant = "BasicRequirements" THEN Ok(req_titles(m.requirements))
    ELSE IF m.variant = "Label" THEN Ok(<<Some(m.title)>>)
    ELSE Panic("not yet implemented")

\* extract_course_titles over leaves.
RECURSIVE extract_course_titles(_)
extract_course_titles(entries) ==
    IF entries = <<>> THEN <<>>
    ELSE (IF Head(entries).variant = "Label" THEN <<Head(entries).name>>
          ELSE flatten(<<Head(entries).name>>))
         \o extract_course_titles(Tail(entries))

get_req_courses_titles(req) ==
    IF req.variant = "Courses" THEN extract_course_titles(req.courses)
    ELSE IF req.variant = "SelectFromCourses"
    THEN (IF req.courses.some THEN extract_course_titles(req.courses.v) ELSE <<>>)
    ELSE flatten(<<req.title>>)

RECURSIVE reqs_courses_titles(_)
reqs_courses_titles(requirements) ==
    IF requirements = <<>> THEN <<>>
    ELSE get_req_courses_titles(Head(requirements)) \o reqs_courses_titles(Tail(requirements))

\* `match m` of the second pass: the course titles of one module.
module_courses(m) ==
    IF m.variant = "SingleBasicRequirement" THEN Ok(get_req_courses_titles(m.requirement))
    ELSE IF m.variant = "BasicRequirements" THEN Ok(reqs_courses_titles(m.requirements))
    ELSE IF m.variant = "Label" THEN Ok(<<m.title>>)
    ELSE Panic("not yet implemented")

\* The two passes over the modules from position i; a panic ends the run.
RECURSIVE driver_passes(_, _, _, _)
driver_passes(mods, i, titles, courses) ==
    IF i > Len(mods) THEN Ok([requirements |-> titles, courses_titles |-> courses])
    ELSE IF ~module_titles(mods[i]).ok THEN module_titles(mods[i])
    ELSE driver_passes(mods, i + 1, titles \o flatten(module_titles(mods[i]).v),
                       Append(courses, module_courses(mods[i]).v))

driver_over(mods) == IF mods.ok THEN driver_passes(mods.v, 1, <<>>, <<>>) ELSE mods

\* main of examples/parse_cs_major.rs on the Requirements just decoded.
ParseCsMajor ==
    /\ pc = "done"
    /\ fn = "Requirements"
    /\ ret.ok
    /\ fn' = "parse_cs_major"
    /\ arg' = ret.v
    /\ ret' = driver_over(req_mods(ret.v))
    /\ from' = arg
    /\ pc' = "done"

\* <T as Deserialize>::deserialize(arg) for the decoder T drawn.
Deserialize(T) ==
    /\ pc = "call"
    /\ fn = T
    /\ ret' = de(T, arg)
    /\ pc' = "done"
    /\ UNCHANGED <<fn, arg, from>>

DeserializeRequirements == Deserialize("Requirements")
DeserializeRequirementModule == Deserialize("RequirementModule")
DeserializeRequirement == Deserialize("Requirement")
DeserializeCourseEntries == Deserialize("CourseEntries")
DeserializeCourseDetails == Deserialize("CourseDetails")

DeserializeGuidWithCurlyBraces == Deserialize("guid_with_curly_braces")
DeserializeAndFloorU8FromFloatStr == Deserialize("floor_u8_from_float_str")
DeserializeExtractGuidOnly == Deserialize("extract_guid_only")
DeserializeIsNarrative == Deserialize("is_narrative")

Next ==
    \/ GuidTryFrom
    \/ GuidToString
    \/ GuidReparse
    \/ GuidRedecode
    \/ DeserializeRequirements
    \/ DeserializeRequirementModule
    \/ DeserializeRequirement
    \/ DeserializeCourseEntries
    \/ DeserializeCourseDetails
    \/ DeserializeGuidWithCurlyBraces
    \/ DeserializeAndFloorU8FromFloatStr
    \/ DeserializeExtractGuidOnly
    \/ DeserializeIsNarrative
    \/ ParseCsMajor

Spec == Init /\ [][Next]_vars

\* ------------------------------------------------------------ claims: Guid

Done(f) == pc = "done" /\ fn = f

Parsed == pc = "done" /\ fn \in {"Guid::try_from", "Guid::reparse"}

Range(t) == { t[k] : k \in 1 .. Len(t) }

IsHexDigit(c) == c \in Range(HexUpper) \cup Range(HexLower)

\* The value of a hex digit, read from the tables (either letter case).
HexVal(c) ==
    IF IndexIn(c, HexUpper, 1) > 0 THEN IndexIn(c, HexUpper, 1) - 1
    ELSE IndexIn(c, HexLower, 1) - 1

IsHyphen(c) == c = "-"

NotHyphen(c) == c # "-"

HexDigitsOf(s) == SelectSeq(s, IsHexDigit)

OnlyHexAndHyphens(s) == \A k \in 1 .. Len(s) : IsHexDigit(s[k]) \/ IsHyphen(s[k])

HasInvalidChar(s) == \E k \in 1 .. Len(s) : ~IsHexDigit(s[k]) /\ ~IsHyphen(s[k])

HasLowerCase(s) == \E k \in 1 .. Len(s) : s[k] \in Range(SubSeq(HexLower, 11, 16))

PackedBytes(d) ==
    [i \in 0 .. GUID_BYTES - 1 |-> 16 * HexVal(d[2 * i + 1]) + HexVal(d[2 * i + 2])]

\* C3: a text of 32..36 characters holding exactly 32 hex digits and
\* otherwise only hyphens, at any positions and in any letter case, parses to
\* the 16 bytes packed from its hex digits two per byte, high nibble first;
\* the result depends on the hex digits' values only, so hyphen placement and
\* letter case do not change it.
C3_ParseHexHyphenText ==
    (Parsed /\ Len(arg) >= 32 /\ Len(arg) <= 36 /\ OnlyHexAndHyphens(arg)
        /\ Len(HexDigitsOf(arg)) = 32)
    => ret = Ok(PackedBytes(HexDigitsOf(arg)))

C3_Witness ==
    /\ Done("Guid::try_from")
    /\ Len(arg) = 35
    /\ arg[1] = "-" /\ arg[3] = "-" /\ arg[35] = "-"
    /\ HasLowerCase(arg)
    /\ \E k \in 1 .. Len(arg) : arg[k] \in {"A", "B", "C", "D", "E", "F"}
    /\ ret.ok

\* C4: parsing the formatted text of a Guid returns that Guid, and no other
\* 16-byte value formats to the same text.
C4_RoundTrip ==
    /\ Done("Guid::reparse") => ret = Ok(from)
    /\ Done("Guid::to_string") => \A w \in GuidValues : w # arg => fmt(w) # ret

C4_Witness ==
    /\ Done("Guid::reparse")
    /\ ret.ok
    /\ ret.v[0] = 8 /\ ret.v[15] = 43

CanonicalHyphens == {9, 14, 19, 24}

\* The canonical text of 16 bytes, position by position.
CanonicalText(inner) ==
    [q \in 1 .. 36 |->
        IF q \in CanonicalHyphens THEN "-"
        ELSE LET j == q - Cardinality({h \in CanonicalHyphens : h < q}) IN
             HexUpper[NibblesOf(inner)[j] + 1]]

\* C5: the text written for a Guid is 36 characters, 32 uppercase hex digits
\* two per byte in byte order, high nibble first, leading zero nibble kept,
\* grouped 8-4-4-4-12 by hyphens; it is a function of the 16 bytes alone,
\* whatever text the Guid was parsed from.
C5_CanonicalFormat ==
    Done("Guid::to_string") => (Len(ret) = 36 /\ ret = CanonicalText(arg))

C5_Witness ==
    /\ Done("Guid::to_string")
    /\ arg[0] < 16
    /\ HasLowerCase(from)
    /\ ~(\E k \in 1 .. Len(from) : IsHyphen(from[k]))
    /\ ret[1] = "0" /\ ret[9] = "-"

\* C6 as stated, lengths counted in characters: shorter than 32 characters
\* fails TooShort, longer than 36 fails TooLong, whatever the characters;
\* 32..36 hex digits and hyphens with fewer than 32 hex digits fails TooShort.
C6_AsClaimed ==
    Done("Guid::try_from") =>
        /\ Len(arg) < 32 => ret = TooShort
        /\ Len(arg) > 36 => ret = TooLong
        /\ (Len(arg) >= 32 /\ Len(arg) <= 36 /\ OnlyHexAndHyphens(arg)
               /\ Len(HexDigitsOf(arg)) < 32) => ret = TooShort

\* C6, amended: the two length checks count the bytes of the text's UTF-8
\* form (str::len): under 32 bytes fails TooShort and over 36 bytes fails
\* TooLong, whatever the characters; a text of 32..36 hex digits and hyphens
\* with fewer than 32 hex digits fails TooShort.
C6_LengthErrors ==
    Done("Guid::try_from") =>
        /\ str_len(arg) < 32 => ret = TooShort
        /\ str_len(arg) > 36 => ret = TooLong
        /\ (Len(arg) >= 32 /\ Len(arg) <= 36 /\ OnlyHexAndHyphens(arg)
               /\ Len(HexDigitsOf(arg)) < 32) => ret = TooShort

C6_Witness ==
    /\ Done("Guid::try_from")
    /\ str_len(arg) = 31
    /\ HasInvalidChar(arg)
    /\ ret = TooShort

\* C7 as stated: a text of 32..36 characters that holds a character which is
\* neither a hex digit nor a hyphen, at any position, fails InvalidCharacter.
C7_AsClaimed ==
    (Done("Guid::try_from") /\ Len(arg) >= 32 /\ Len(arg) <= 36 /\ HasInvalidChar(arg))
    => ret = InvalidCharacter

\* ------------------------------------------------------------ claims: decoders

ArmsOf(T) ==
    CASE T = "Requirements" -> RequirementsArms
      [] T = "RequirementModule" -> RequirementModuleArms
      [] T = "Requirement" -> RequirementArms
      [] T = "CourseEntries" -> CourseEntriesArms
      [] T = "CourseDetails" -> CourseDetailsArms

\* A mapping decoder has returned from a mapping.
DoneMap == pc = "done" /\ fn \in Decoders /\ arg.t = "obj"

Keys(m) == { m[i].k : i \in 1 .. Len(m) }

Positions(m, k) == { i \in 1 .. Len(m) : m[i].k = k }

First(m, k) == m[CHOOSE i \in Positions(m, k) : \A j \in Positions(m, k) : i <= j]

\* The positions where a recognized key occurs for the second time or later.
Repeats(m, arms) ==
    { j \in 1 .. Len(m) : m[j].k \in DOMAIN arms /\ \E i \in 1 .. j - 1 : m[i].k = m[j].k }

FirstRepeat(m, arms) == CHOOSE j \in Repeats(m, arms) : \A i \in Repeats(m, arms) : j <= i

\* Every value under a recognized key is one its arm accepts, and every key
\* is written without escape sequences.
PlainEntries(m, arms) ==
    \A i \in 1 .. Len(m) :
        /\ ~m[i].esc
        /\ m[i].k \in DOMAIN arms => de(arms[m[i].k].de, m[i].v).ok

RECURSIVE StripUnknown(_, _)
StripUnknown(m, arms) ==
    IF m = <<>> THEN <<>>
    ELSE IF Head(m).k \in DOMAIN arms THEN <<Head(m)>> \o StripUnknown(Tail(m), arms)
    ELSE StripUnknown(Tail(m), arms)

\* C1: a Requirement mapping whose title and req_narrative are present once
\* (null or text) and whose course is absent or decodes is decoded, and the
\* variant follows the precedence: title containing "Select" gives
\* SelectFromCourses with the title and the optional entries; else course
\* present gives Courses with the entries and the optional title; else Label
\* with title and req_narrative.
C1_VariantPrecedence ==
    (Done("Requirement") /\ arg.t = "obj" /\ Repeats(arg.m, RequirementArms) = {}
        /\ {"title", "req_narrative"} \subseteq Keys(arg.m)
        /\ PlainEntries(arg.m, RequirementArms))
    => LET title == First(arg.m, "title").v
           narrative == First(arg.m, "req_narrative").v
           has_course == "course" \in Keys(arg.m)
           entries == de("CourseEntries", First(arg.m, "course").v).v
           select == title.t = "str" /\ Contains(title.s, STR_Select)
           opt(v) == IF v.t = "null" THEN None ELSE Some(v.s)
       IN /\ ret.ok
          /\ select =>
                /\ ret.v.variant = "SelectFromCourses"
                /\ ret.v.title = title.s
                /\ ret.v.courses = (IF has_course THEN Some(entries) ELSE None)
          /\ (~select /\ has_course) =>
                /\ ret.v.variant = "Courses"
                /\ ret.v.title = opt(title)
                /\ ret.v.courses = entries
          /\ (~select /\ ~has_course) =>
                /\ ret.v.variant = "Label"
                /\ ret.v.title = opt(title)
                /\ ret.v.req_narrative = opt(narrative)

\* A title containing "Select" with course entries present.
C1_Witness ==
    /\ Done("Requirement")
    /\ arg.t = "obj"
    /\ ret.ok
    /\ ret.v.variant = "SelectFromCourses"
    /\ "course" \in Keys(arg.m)
    /\ ret.v.courses.some
    /\ Len(ret.v.courses.v) > 0

\* C2 (as claimed): a Requirements list of n elements decodes to an error or
\* to Many with exactly n modules, the i-th the decode of the i-th element.
C2_AsClaimed ==
    (Done("Requirements") /\ arg.t = "arr" /\ ret.ok)
    => /\ ret.v.variant = "Many"
       /\ Len(ret.v.modules) = Len(arg.a)
       /\ \A i \in 1 .. Len(arg.a) :
            ret.v.modules[i] = de("RequirementModule", arg.a[i]).v

\* C8 (as claimed): when the decode of a mapping reaches a recognized key for
\* the second time, it fails with a duplicate-field error naming that key as
\* the input writes it.
C8_AsClaimed ==
    (DoneMap /\ Repeats(arg.m, ArmsOf(fn)) # {} /\ PlainEntries(arg.m, ArmsOf(fn)))
    => ret = Err("duplicate_field", arg.m[FirstRepeat(arg.m, ArmsOf(fn))].k)

RequiredKeys(T) ==
    CASE T = "Requirements" -> {"title", "requirement_list"}
      [] T = "RequirementModule" -> {"title", "requirement_list"}
      [] T = "Requirement" -> {"title", "req_narrative"}
      [] T = "CourseEntries" -> DOMAIN CourseEntriesArms
      [] T = "CourseDetails" -> DOMAIN CourseDetailsArms \ {"prerequisite", "corequisite"}

\* C9 (as claimed): a mapping that ends without one of the decoder's required
\* keys fails with a missing-field error naming a required key that is
\* missing, spelled as the key the decoder reads.
C9_AsClaimed ==
    (DoneMap /\ Repeats(arg.m, ArmsOf(fn)) = {} /\ PlainEntries(arg.m, ArmsOf(fn))
        /\ ~(RequiredKeys(fn) \subseteq Keys(arg.m)))
    => /\ ~ret.ok
       /\ ret.err = "missing_field"
       /\ ret.what \in RequiredKeys(fn) \ Keys(arg.m)

\* C10 (as claimed): the decode of a mapping is the decode of the mapping
\* without the keys the decoder does not recognize.
C10_AsClaimed ==
    DoneMap => ret = de(fn, JObj(StripUnknown(arg.m, ArmsOf(fn))))

OptText(v) == IF v.t = "null" THEN None ELSE Some(v.s)

\* The payload is a mapping whose `course` is one course object: an object
\* the single-object course decoder reads as a Course leaf.
CarriesSingleCourse(payload) ==
    /\ payload.t = "obj"
    /\ "course" \in Keys(payload.m)
    /\ First(payload.m, "course").v.t = "obj"
    /\ de("CourseEntries", First(payload.m, "course").v).ok
    /\ de("CourseEntries", First(payload.m, "course").v).v[1].variant = "Course"

\* C11: a Requirements mapping that decodes gives Single(module) with the
\* mapping's title; the module is BasicRequirements with the decoded list when
\* requirement_list is a list, SingleBasicRequirement when it is an object,
\* and then, when the object carries a single course object, its requirement
\* is Courses with exactly that one Course and the object's optional title.
C11_SingleWrapping ==
    (Done("Requirements") /\ arg.t = "obj" /\ ret.ok)
    => LET payload == First(arg.m, "requirement_list").v
           module == ret.v.module
       IN /\ ret.v.variant = "Single"
          /\ module.title = OptText(First(arg.m, "title").v)
          /\ payload.t \in {"arr", "obj"}
          /\ payload.t = "arr" =>
                /\ module.variant = "BasicRequirements"
                /\ module.requirements = de("Vec<Requirement>", payload).v
          /\ payload.t = "obj" => module.variant = "SingleBasicRequirement"
          /\ CarriesSingleCourse(payload) =>
                /\ module.requirement.variant = "Courses"
                /\ module.requirement.title =
                      (IF "title" \in Keys(payload.m)
                       THEN OptText(First(payload.m, "title").v) ELSE None)
                /\ module.requirement.courses
                      = de("CourseEntries", First(payload.m, "course").v).v

\* A mapping whose payload has a title containing "Select" and a single
\* course object has been decoded.
C11_Witness ==
    /\ Done("Requirements")
    /\ arg.t = "obj"
    /\ ret.ok
    /\ CarriesSingleCourse(First(arg.m, "requirement_list").v)
    /\ "title" \in Keys(First(arg.m, "requirement_list").v.m)
    /\ First(First(arg.m, "requirement_list").v.m, "title").v.t = "str"
    /\ Contains(First(First(arg.m, "requirement_list").v.m, "title").v.s, STR_Select)
    /\ Len(ret.v.module.requirement.courses) = 1

\* C12 (as claimed): a RequirementModule mapping with a title and a
\* requirement_list that is a list of requirements, or one requirement object,
\* is decoded: to BasicRequirements for the list, to SingleBasicRequirement
\* for the object.
C12_AsClaimed ==
    (Done("RequirementModule") /\ arg.t = "obj"
        /\ Repeats(arg.m, RequirementModuleArms) = {}
        /\ {"title", "requirement_list"} \subseteq Keys(arg.m)
        /\ First(arg.m, "title").v.t \in {"null", "str"}
        /\ \/ de("Vec<Requirement>", First(arg.m, "requirement_list").v).ok
           \/ de("Requirement", First(arg.m, "requirement_list").v).ok)
    => /\ ret.ok
       /\ First(arg.m, "requirement_list").v.t = "arr" =>
             ret.v.variant = "BasicRequirements"
       /\ First(arg.m, "requirement_list").v.t = "obj" =>
             ret.v.variant = "SingleBasicRequirement"

\* The single-object course value has every required key once, with values
\* its arms accept.
CompleteLeaf ==
    /\ Done("CourseEntries")
    /\ arg.t = "obj"
    /\ Repeats(arg.m, CourseEntriesArms) = {}
    /\ DOMAIN CourseEntriesArms \subseteq Keys(arg.m)
    /\ PlainEntries(arg.m, CourseEntriesArms)

IsNull(k) == First(arg.m, k).v.t = "null"

\* C13: a complete single-object course value with is_narrative true fails
\* when name is null and else gives exactly one Label leaf; with is_narrative
\* false it fails when number or subject_code is null and else gives exactly
\* one Course leaf.  A null name does not fail a Course, a null number or
\* subject_code does not fail a Label.
C13_LeafByNarrative ==
    CompleteLeaf
    => IF First(arg.m, "is_narrative").v.s = STR_True
       THEN IF IsNull("name") THEN ~ret.ok
            ELSE /\ ret.ok
                 /\ Len(ret.v) = 1
                 /\ ret.v[1].variant = "Label"
                 /\ ret.v[1].name = First(arg.m, "name").v.s
                 /\ ret.v[1].number = OptText(First(arg.m, "number").v)
                 /\ ret.v[1].subject_code = OptText(First(arg.m, "subject_code").v)
       ELSE IF IsNull("number") \/ IsNull("subject_code") THEN ~ret.ok
            ELSE /\ ret.ok
                 /\ Len(ret.v) = 1
                 /\ ret.v[1].variant = "Course"
                 /\ ret.v[1].name = OptText(First(arg.m, "name").v)
                 /\ ret.v[1].number = First(arg.m, "number").v.s
                 /\ ret.v[1].subject_code = First(arg.m, "subject_code").v.s

\* A Label leaf decoded from a value whose number and subject_code are null.
C13_Witness ==
    /\ CompleteLeaf
    /\ ret.ok
    /\ ret.v[1].variant = "Label"
    /\ IsNull("number")
    /\ IsNull("subject_code")

\* C14 (as claimed): a list-shaped course value that decodes was assembled
\* from every raw entry of the list, in document order; a raw entry that fails
\* to decode fails the decode.
C14_AsClaimed ==
    (Done("CourseEntries") /\ arg.t = "arr" /\ ret.ok)
    => /\ \A i \in 1 .. Len(arg.a) : de("RawCourseEntry", arg.a[i]).ok
       /\ ret.v = CoursesParser_parse(
                      [i \in 1 .. Len(arg.a) |-> de("RawCourseEntry", arg.a[i]).v]).v

\* C15 (as claimed): a decode that reads a brace-wrapped identifier (a course
\* leaf's guid, CourseDetails' GUID, a requisite's GUID,
\* deserialize_guid_with_curly_braces) returns a value or an error for every
\* string supplied; it never panics.
C15_AsClaimed ==
    (pc = "done" /\ fn \in {"CourseEntries", "CourseDetails", "guid_with_curly_braces"})
    => ~IsPanic(ret)

\* C16 (as claimed): the text the serializer writes for a Guid g, decoded again
\* by any identifier decode path of the core (Guid's deserializer and the
\* brace-stripping decoders), gives g.
C16_AsClaimed ==
    (pc = "done" /\ fn = "redecode") => ret = Ok(from)

\* The decimal dec is greater than 255.
DecimalOver255(dec) == ~dec.neg /\ (dec.int > 255 \/ (dec.int = 255 /\ dec.frac > 0))

\* The outcome the floored-integer decode is said to have on the text s:
\* failure exactly for a value over 255, the integer part for 0 .. 255.
FloorAsClaimed(s, failed, value) ==
    LET dec == parse_decimal(s).v IN
    /\ failed <=> DecimalOver255(dec)
    /\ (~dec.neg /\ ~DecimalOver255(dec)) => (~failed /\ value = dec.int)

\* C17 (as claimed): deserialize_and_floor_u8_from_float_str on decimal text of
\* value v fails exactly when v > 255 and returns v truncated toward zero for
\* 0 <= v <= 255.
C17_AsClaimed ==
    (pc = "done" /\ fn = "floor_u8_from_float_str" /\ arg.t = "str"
       /\ parse_decimal(arg.s).ok)
    => FloorAsClaimed(arg.s, ~ret.ok, IF ret.ok THEN ret.v ELSE 0)

\* Plain decimal text with at most five digits after the point.
ShortDecimal(v) ==
    v.t = "str" /\ parse_decimal(v.s).ok /\ parse_decimal(v.s).v.scale <= 5

\* A credit value that does not fail the CourseDetails decode: null, or a
\* short decimal of at most 255.
CreditFine(v) ==
    v.t = "null" \/ (ShortDecimal(v) /\ ~DecimalOver255(parse_decimal(v.s).v))

\* The CourseDetails document is sound in every field but the credits, which
\* are null, short decimals or no numbers.
CreditsDocument(m) ==
    /\ Len(m) = Len(Details(JNull, JNull, JNull))
    /\ m = Details(m[8].v, m[9].v, JStr(Braced(TextOf(GuidA))))
    /\ \A i \in {8, 9} :
         m[i].v.t = "null" \/ ShortDecimal(m[i].v) \/ (m[i].v.t = "str" /\ ~parse_decimal(m[i].v.s).ok)

\* C17 (amended): on plain decimal text of value v with at most five digits
\* after the point, the floored-integer decode (the field decoder, credits_min
\* and credits_max) fails exactly when v > 255 and returns v truncated toward
\* zero for 0 <= v <= 255.
C17_FloorOfShortDecimal ==
    /\ (pc = "done" /\ fn = "floor_u8_from_float_str" /\ ShortDecimal(arg))
       => FloorAsClaimed(arg.s, ~ret.ok, IF ret.ok THEN ret.v ELSE 0)
    /\ (pc = "done" /\ fn = "CourseDetails" /\ arg.t = "obj" /\ CreditsDocument(arg.m))
       => /\ ret.ok <=> (CreditFine(arg.m[8].v) /\ CreditFine(arg.m[9].v))
          /\ (ret.ok /\ ShortDecimal(arg.m[8].v))
               => FloorAsClaimed(arg.m[8].v.s, FALSE, ret.v.credits_min)
          /\ (ret.ok /\ ShortDecimal(arg.m[9].v))
               => (ret.v.credits_max.some
                   /\ FloorAsClaimed(arg.m[9].v.s, FALSE, ret.v.credits_max.v))

\* The decimal 255.00001, one hundred-thousandth over the limit, is refused.
C17_Witness ==
    /\ pc = "done" /\ fn = "floor_u8_from_float_str"
    /\ arg = JStr(<<"2", "5", "5", ".", "0", "0", "0", "0", "1">>)
    /\ ~ret.ok

CreditKeys == {"credits_min", "credits_max"}

\* The entries of m other than the two credit fields.
WithoutCredits(m) ==
    LET Other(e) == e.k \notin CreditKeys IN SelectSeq(m, Other)

\* The key k is missing from m or holds null.
NullOrAbsent(m, k) == \A i \in Positions(m, k) : m[i].v.t = "null"

\* A CourseDetails document that is sound in every field but the credits,
\* where each credit field occurs at most once and is null or missing.
CreditsLeftOut(m) ==
    /\ WithoutCredits(m) = WithoutCredits(Details(JNull, JNull, JStr(Braced(TextOf(GuidA)))))
    /\ \A k \in CreditKeys : Cardinality(Positions(m, k)) <= 1 /\ NullOrAbsent(m, k)

\* C18 (as claimed): a CourseDetails document whose credits_min and
\* credits_max are null or missing decodes, with credits_min 0 and credits_max
\* None.
C18_AsClaimed ==
    (pc = "done" /\ fn = "CourseDetails" /\ arg.t = "obj" /\ CreditsLeftOut(arg.m))
    => (ret.ok /\ ret.v.credits_min = 0 /\ ret.v.credits_max = None)

\* The requisite value r is one the extraction is said to reject: no keyed
\* mapping, no GUID key, or a GUID that is no string.
RequisiteRejected(r) ==
    \/ r.t # "obj"
    \/ "GUID" \notin Keys(r.m)
    \/ \E i \in Positions(r.m, "GUID") : r.m[i].v.t # "str"

\* The GUID of the requisite value r is a parsable identifier in braces.
RequisiteSound(r) ==
    /\ ~RequisiteRejected(r)
    /\ LET s == First(r.m, "GUID").v.s IN
       /\ Len(s) >= 2 /\ s[1] = "{" /\ s[Len(s)] = "}"
       /\ try_from(SubSeq(s, 2, Len(s) - 1)).ok

\* What the extraction is said to give for the requisite value r: an error
\* for a rejected value, never an absent identifier, and for a sound value the
\* identifier between the braces.
ExtractionAsClaimed(r, failed, guid) ==
    /\ RequisiteRejected(r) => failed
    /\ ~failed => guid.some
    /\ RequisiteSound(r) =>
         /\ ~failed
         /\ guid = Some(try_from(SubSeq(First(r.m, "GUID").v.s, 2,
                                       Len(First(r.m, "GUID").v.s) - 1)).v)

\* The extraction by extract_guid_from_requisite, for a CourseDetails document
\* sound in every other field with one prerequisite or corequisite.
RequisiteAsClaimed ==
    \A k \in {"prerequisite", "corequisite"} :
        (pc = "done" /\ fn = "CourseDetails" /\ arg.t = "obj"
           /\ \E r \in RequisiteValues :
                arg.m = Details(JNull, JNull, JStr(Braced(TextOf(GuidA)))) \o <<Entry(k, r)>>)
        => ExtractionAsClaimed(arg.m[Len(arg.m)].v, ~ret.ok,
                               IF ret.ok THEN ret.v[k] ELSE None)

\* The extraction by deserialize_extract_guid_only.
CompanionAsClaimed ==
    (pc = "done" /\ fn = "extract_guid_only")
    => ExtractionAsClaimed(arg, ~ret.ok, IF ret.ok THEN ret.v ELSE None)

\* C19 (as claimed): both extractions of a requisite's identifier fail for a
\* value that is no keyed mapping (null included), for a mapping without GUID
\* and for a GUID that is no string, give the identifier between the braces
\* otherwise, and never give an absent identifier for a field that is present.
C19_AsClaimed == RequisiteAsClaimed /\ CompanionAsClaimed

\* What the pseudo-boolean decode is said to give for the text s.
PseudoBooleanAsClaimed(s, r) ==
    IF s = STR_True THEN r = Ok(TRUE)
    ELSE IF s = STR_False THEN r = Ok(FALSE)
    ELSE ~r.ok /\ r.err = "custom" /\ Contains(r.msg, s)

SupportedModules == {"SingleBasicRequirement", "BasicRequirements"}

\* The modules a decoded Requirements holds.
ModulesOf(reqs) ==
    IF reqs.variant = "Single" THEN {reqs.module}
    ELSE IF reqs.variant = "Many" THEN { reqs.modules[i] : i \in 1 .. Len(reqs.modules) }
    ELSE {}

\* C21: a successful Requirements decode is Single or Many, every module in
\* it (and every module decoded on its own) is SingleBasicRequirement or
\* BasicRequirements, and the example driver run on a decoded Requirements
\* never reaches one of its todo!() branches.
C21_SupportedVariants ==
    /\ (pc = "done" /\ fn = "Requirements" /\ ret.ok)
       => /\ ret.v.variant \in {"Single", "Many"}
          /\ \A module \in ModulesOf(ret.v) : module.variant \in SupportedModules
    /\ (pc = "done" /\ fn = "RequirementModule" /\ ret.ok)
       => ret.v.variant \in SupportedModules
    /\ (pc = "done" /\ fn = "parse_cs_major") => ret.ok

\* The driver has gone through a decoded list of two or more modules.
C21_Witness ==
    /\ pc = "done" /\ fn = "parse_cs_major"
    /\ arg.variant = "Many" /\ Len(arg.modules) >= 2
    /\ ret.ok

\* The payload is an object with one `course` that the Course decoder
\* accepts and at most one title, a text or null.
CourseDecodesAsOne(payload) ==
    /\ payload.t = "obj"
    /\ Cardinality(Positions(payload.m, "course")) = 1
    /\ de("Course", First(payload.m, "course").v).ok
    /\ Cardinality(Positions(payload.m, "title")) <= 1
    /\ \A i \in Positions(payload.m, "title") : de_Option_String(payload.m[i].v).ok

\* The module the three candidates give for a payload, tried in the order
\* single-course object, single Requirement, list of Requirements.
FirstCandidate(title, payload) ==
    IF de("SingleCourseRequirement", payload).ok
    THEN [variant |-> "SingleBasicRequirement", title |-> title,
          requirement |->
            [variant |-> "Courses",
             title |-> de("SingleCourseRequirement", payload).v.title,
             courses |-> <<de("SingleCourseRequirement", payload).v.course>>]]
    ELSE IF de("Requirement", payload).ok
    THEN [variant |-> "SingleBasicRequirement", title |-> title,
          requirement |-> de("Requirement", payload).v]
    ELSE [variant |-> "BasicRequirements", title |-> title,
          requirements |-> de("Vec<Requirement>", payload).v]

\* C22: in the Requirements mapping decode the module is the one the first
\* candidate that decodes gives, in the order single-course object, single
\* Requirement, list of Requirements; a payload whose `course` decodes as one
\* Course decodes and becomes Courses with that one course and the payload's
\* title, whatever the title says and with or without req_narrative; a
\* SelectFromCourses or Label is given only for a payload the single-course
\* candidate rejects.
C22_CandidateOrder ==
    (Done("Requirements") /\ arg.t = "obj")
    => /\ ret.ok => ret.v.module = FirstCandidate(ret.v.module.title,
                                                  First(arg.m, "requirement_list").v)
       /\ \A payload \in RequirementsPayloads :
            (arg.m = Module(JStr(T_Core), payload) /\ CourseDecodesAsOne(payload))
            => /\ ret.ok
               /\ ret.v.module.requirement.variant = "Courses"
               /\ ret.v.module.requirement.courses
                    = <<de("Course", First(payload.m, "course").v).v>>
               /\ ret.v.module.requirement.title
                    = (IF "title" \in Keys(payload.m)
                       THEN OptText(First(payload.m, "title").v) ELSE None)

\* A payload with a title containing "Select", one course object and no
\* req_narrative has become Courses.
C22_Witness ==
    /\ Done("Requirements")
    /\ arg.t = "obj"
    /\ ret.ok
    /\ CourseDecodesAsOne(First(arg.m, "requirement_list").v)
    /\ "req_narrative" \notin Keys(First(arg.m, "requirement_list").v.m)
    /\ Contains(First(First(arg.m, "requirement_list").v.m, "title").v.s, STR_Select)
    /\ ret.v.module.requirement.variant = "Courses"

\* The value v is plain decimal text of a negative number.
NegativeDecimal(v) ==
    /\ v.t = "str" /\ parse_decimal(v.s).ok
    /\ parse_decimal(v.s).v.neg
    /\ parse_decimal(v.s).v.int + parse_decimal(v.s).v.frac > 0

\* C23: the floored-integer decode of negative decimal text does not fail and
\* gives 0: at the field decoder, as credits_max (Some(0)) and as credits_min,
\* where the record is the one a null credits_min gives.
C23_NegativeIsZero ==
    /\ (pc = "done" /\ fn = "floor_u8_from_float_str" /\ NegativeDecimal(arg))
       => ret = Ok(0)
    /\ (pc = "done" /\ fn = "CourseDetails" /\ arg.t = "obj" /\ CreditsDocument(arg.m))
       => /\ (NegativeDecimal(arg.m[8].v) /\ CreditFine(arg.m[9].v))
               => /\ ret.ok
                  /\ ret.v.credits_min = 0
                  /\ ret = de("CourseDetails",
                              JObj(Details(JNull, arg.m[9].v, JStr(Braced(TextOf(GuidA))))))
          /\ (NegativeDecimal(arg.m[9].v) /\ CreditFine(arg.m[8].v))
               => (ret.ok /\ ret.v.credits_max = Some(0))

\* A CourseDetails with credits_min "-300" and credits_max "-0.5" has been
\* decoded.
C23_Witness ==
    /\ pc = "done" /\ fn = "CourseDetails" /\ arg.t = "obj"
    /\ CreditsDocument(arg.m)
    /\ arg.m[8].v = JStr(<<"-", "3", "0", "0">>)
    /\ arg.m[9].v = JStr(<<"-", "0", ".", "5">>)
    /\ ret.ok /\ ret.v.credits_min = 0 /\ ret.v.credits_max = Some(0)

====
